---- MODULE Spec2Model ----
(***************************************************************************)
(* Load-time bootstrap of modin.pandas (src/modin/pandas/__init__.py,      *)
(* lines 120-231): engine dispatch, initialize_ray, the object-store       *)
(* budget, move_stdlib_ahead_of_site_packages and DEFAULT_NPARTITIONS.     *)
(*                                                                         *)
(* Representation.  Python strings that the code inspects are sequences of *)
(* one-character strings; in path strings the word "site-packages" is one  *)
(* symbol and every other symbol is a character that does not occur in it. *)
(* Byte quantities are counted in units of 10^6 bytes, so 10 ** 9 is GB    *)
(* below.  CPU capacities (floats in the code) are counted in tenths of a  *)
(* CPU.  Python's None is the empty set and a present value x is {x}.      *)
(***************************************************************************)
EXTENDS Integers, Sequences, FiniteSets, TLC

None == {}
Some(x) == {x}
Get(o) == CHOOSE x \in o : TRUE

Max(a, b) == IF a >= b THEN a ELSE b

(* ------------------------- bounds of the model ------------------------- *)
\* initialize_ray() invocations made after the module has loaded
MaxCalls == 2

(* --------------------------- program constants ------------------------- *)
\* 10 ** 9 bytes, in units of 10^6 bytes
GB == 1000
\* "Default to 8x memory for out of core"
OutOfCoreFactor == 8
\* max(4, int(num_cpus))
MinPartitions == 4

MainThread == "MainThread"
Threads == {"MainThread", "Thread-1"}

(* ------------------------------ str.title() ---------------------------- *)
LowerCase == <<"a", "e", "f", "l", "r", "s", "t", "u">>
UpperCase == <<"A", "E", "F", "L", "R", "S", "T", "U">>
IsCased(c) == \E i \in 1..Len(LowerCase) : c = LowerCase[i] \/ c = UpperCase[i]
upper(c) == IF \E i \in 1..Len(LowerCase) : c = LowerCase[i]
            THEN UpperCase[CHOOSE i \in 1..Len(LowerCase) : c = LowerCase[i]]
            ELSE c
lower(c) == IF \E i \in 1..Len(UpperCase) : c = UpperCase[i]
            THEN LowerCase[CHOOSE i \in 1..Len(UpperCase) : c = UpperCase[i]]
            ELSE c
\* a cased character that follows a cased character is lowered, any other
\* cased character starts a word and is raised
title(s) == [i \in 1..Len(s) |->
               IF i > 1 /\ IsCased(s[i - 1]) THEN lower(s[i]) ELSE upper(s[i])]

(* --------------------------------- int() ------------------------------- *)
DigitChars == <<"0", "1", "2", "3", "4", "5", "6", "7", "8", "9">>
IsDigit(c) == \E d \in 1..10 : DigitChars[d] = c
DigitValue(c) == (CHOOSE d \in 1..10 : DigitChars[d] = c) - 1
Unsigned(s) == IF s # <<>> /\ s[1] \in {"+", "-"} THEN Tail(s) ELSE s
\* int(str) raises ValueError unless the text is an optional sign and digits
IsIntLiteral(s) == /\ Unsigned(s) # <<>>
                   /\ \A i \in 1..Len(Unsigned(s)) : IsDigit(Unsigned(s)[i])
RECURSIVE DigitsValue(_)
DigitsValue(s) == IF s = <<>> THEN 0
                  ELSE 10 * DigitsValue(SubSeq(s, 1, Len(s) - 1))
                       + DigitValue(s[Len(s)])
ParseInt(s) == IF s[1] = "-" THEN 0 - DigitsValue(Unsigned(s))
               ELSE DigitsValue(Unsigned(s))

\* values of the local object_store_memory: a str from the environment or
\* an int computed from the system memory
PyStr(s) == [type |-> "str", val |-> s]
PyInt(n) == [type |-> "int", val |-> n]
\* int(x) raises ValueError
IntRaises(x) == x.type = "str" /\ ~IsIntLiteral(x.val)
int(x) == IF x.type = "int" THEN x.val ELSE ParseInt(x.val)

(* ------------------- str operations used on sys.path ------------------- *)
\* needle in hay
Contains(needle, hay) ==
    \E i \in 0..(Len(hay) - Len(needle)) :
        SubSeq(hay, i + 1, i + Len(needle)) = needle
\* path.endswith(suffix)
endswith(s, suffix) ==
    /\ Len(s) >= Len(suffix)
    /\ SubSeq(s, Len(s) - Len(suffix) + 1, Len(s)) = suffix
SitePackages == <<"site-packages">>
Sep == "/"
RECURSIVE rstrip(_)
rstrip(s) == IF s # <<>> /\ s[Len(s)] = Sep
             THEN rstrip(SubSeq(s, 1, Len(s) - 1)) ELSE s
\* os.path.dirname: everything up to the last separator, trailing
\* separators removed unless the head consists of separators only
dirname(p) ==
    LET seps == {i \in 1..Len(p) : p[i] = Sep}
        i == IF seps = {} THEN 0 ELSE CHOOSE k \in seps : \A j \in seps : j <= k
        head == SubSeq(p, 1, i)
    IN IF head # <<>> /\ (\E k \in 1..Len(head) : head[k] # Sep)
       THEN rstrip(head) ELSE head
\* list.insert(index, x) for an index within the list (0-based index)
insert(list, index, x) ==
    SubSeq(list, 1, index) \o <<x>> \o SubSeq(list, index + 1, Len(list))

IsSitePackages(path, exec_prefix) ==
    Contains(exec_prefix, path) /\ endswith(path, SitePackages)

\* the nested function of initialize_ray, as a function of sys.path
move_stdlib_ahead_of_site_packages(path_list, exec_prefix) ==
    LET found == {i \in 1..Len(path_list) : IsSitePackages(path_list[i], exec_prefix)}
    IN IF found = {} THEN path_list
       ELSE LET first == CHOOSE i \in found : \A j \in found : i <= j
            IN insert(path_list, first - 1, dirname(path_list[first]))


(* --------------------- the object-store budget ------------------------- *)
\* os.environ.get(name, default)
EnvGet(value, default) == IF value = None THEN default ELSE Get(value)

True == <<"T", "r", "u", "e">>
False == <<"F", "a", "l", "s", "e">>
TempDir == "gettempdir()"

\* os.environ.get("MODIN_OUT_OF_CORE", "False").title() == "True"
OutOfCore(env) == title(EnvGet(env.MODIN_OUT_OF_CORE, False)) = True

\* a variant that forgets to round down to the nearest gigabyte
OutOfCoreMemoryUnrounded(mem) == OutOfCoreFactor * mem

\* mem_bytes = get_system_memory() // 10 ** 9 * 10 ** 9 ; 8 * mem_bytes
OutOfCoreMemory(mem) == OutOfCoreFactor * ((mem \div GB) * GB)

\* a variant without the test of line 163
InCoreMemoryKeepingZero(mem) == Some(((6 * mem) \div (10 * GB)) * GB)

\* int(0.6 * get_system_memory() // 10 ** 9 * 10 ** 9), and None when it is 0
\* (0.6 * mem is a float: it is floored by the // only)
InCoreMemory(mem) ==
    LET object_store_memory == ((6 * mem) \div (10 * GB)) * GB
    IN IF object_store_memory = 0 THEN None ELSE Some(object_store_memory)

\* object_store_memory after the out-of-core block: the str of MODIN_MEMORY,
\* kept when it is set, else 8x the memory when out of core, else still None
AfterOutOfCore(env, mem) ==
    LET object_store_memory ==
            IF env.MODIN_MEMORY = None THEN None
            ELSE Some(PyStr(Get(env.MODIN_MEMORY)))
    IN IF OutOfCore(env) /\ object_store_memory = None
       THEN Some(PyInt(OutOfCoreMemory(mem)))
       ELSE object_store_memory

\* int(object_store_memory) raises ValueError
MemoryRaises(env, mem) ==
    AfterOutOfCore(env, mem) # None /\ IntRaises(Get(AfterOutOfCore(env, mem)))

\* the keyword arguments of ray.init in the local branch
LocalInitArgs(env, mem) ==
    [plasma_directory |-> IF OutOfCore(env) THEN Some(TempDir) ELSE None,
     object_store_memory |->
         IF AfterOutOfCore(env, mem) = None THEN InCoreMemory(mem)
         ELSE Some(int(Get(AfterOutOfCore(env, mem)))),
     redis_address |-> env.MODIN_REDIS_ADDRESS]

\* number of ray.utils.get_system_memory() calls of the local branch
MemoryReads(env) == IF env.MODIN_MEMORY = None THEN 1 ELSE 0

\* the keyword arguments of ray.init in the cluster branch
ClusterInitArgs(env) ==
    [plasma_directory |-> None,
     object_store_memory |-> None,
     redis_address |-> env.MODIN_REDIS_ADDRESS]

(* --------------------------- DEFAULT_NPARTITIONS ----------------------- *)
\* int(num_cpus) for a capacity in tenths of a CPU
IntOfCpus(tenths) == tenths \div 10
\* a variant without the minimum of 4
DefaultNPartitionsNoMinimum(cpus) == IntOfCpus(cpus)
\* max(4, int(num_cpus))
DefaultNPartitions(cpus) == Max(MinPartitions, IntOfCpus(cpus))

(* ------------------------------ engine dispatch ------------------------ *)
\* a variant that compares the engine names without regard to case
DispatchIgnoringCase(engine) ==
    IF engine \in {"Ray", "ray"} THEN "Ray"
    ELSE IF engine \in {"Dask", "dask"} THEN "Dask"
    ELSE IF engine \notin {"Python", "PYTHON"} THEN "raise"
    ELSE "Python"

\* the if / elif chain on execution_engine
Dispatch(engine) ==
    IF engine = "Ray" THEN "Ray"
    ELSE IF engine = "Dask" THEN "Dask"
    ELSE IF engine # "Python" THEN "raise"
    ELSE "Python"

\* "Unrecognized execution engine: {}.".format(execution_engine)
UnrecognizedMessage(engine) == <<"Unrecognized execution engine: ", engine, ".">>


(* ------------------------------- inputs -------------------------------- *)
Engines == {"Python", "Ray", "Dask", "ray", "PYTHON", "Spark"}
ClusterValues == {None, Some("True"), Some("False")}
RedisValues == {None, Some("10.0.0.1:6379")}
MemoryValues == {None, Some(<<"0">>), Some(<<"-", "1", "0", "0", "0">>),
                 Some(<<"2", "0", "0", "0">>), Some(<<"2", "G", "B">>)}
OutOfCoreValues == {None, Some(<<"t", "r", "u", "e">>), Some(False)}
\* 0.5 GB, 1.7 GB, 2 GB and 17.179 GB (16 GiB to the nearest 10^6 bytes)
SystemMemories == {500, 1700, 2000, 17179}
\* 0.5, 3.9, 4.0 and 17.2 CPUs
CpuCapacities == {5, 39, 40, 172}
DaskCores == {1, 8}
\* sys.exec_prefix
ExecPrefix == <<"/", "u">>
StdLib == <<"/", "u", "/", "l">>
\* "", the standard library and its site-packages; a site-packages outside
\* the prefix; a site-packages whose path holds the prefix further inside
SysPaths ==
    { <<<<>>, StdLib, StdLib \o <<"/">> \o SitePackages>>,
      <<<<"/", "o", "/">> \o SitePackages>>,
      <<<<"/", "v">> \o StdLib \o <<"/">> \o SitePackages>> }

DefaultEnviron ==
    [OMP_NUM_THREADS |-> Some("1"),
     MODIN_RAY_CLUSTER |-> None,
     MODIN_REDIS_ADDRESS |-> None,
     MODIN_MEMORY |-> None,
     MODIN_OUT_OF_CORE |-> None]

(* -------------------------------- state -------------------------------- *)
VARIABLES
    execution_engine,     \* modin.__execution_engine__
    loader,               \* name of the thread that imports the module
    environ,              \* os.environ
    system_memory,        \* what ray.utils.get_system_memory() returns
    sys_path,             \* sys.path of this process (the driver)
    worker_sys_path,      \* sys.path of a worker process of the cluster
    dask_client,          \* whether a global Dask client exists
    dask_ncores,          \* sum(client.ncores().values())
    ray_initialized,      \* whether this process is connected to Ray (it is
                          \* before the import when ray.init ran earlier)
    pc,                   \* position of the module body
    ir,                   \* position of MainThread inside initialize_ray
    num_cpus,             \* module global, in tenths of a CPU
    DEFAULT_NPARTITIONS,  \* module global, None until line 231 has run
    error,                \* the exception that ended the module body
    backend_log,          \* the calls made to the backend, in order
    memory_reads,         \* number of get_system_memory() calls
    post_calls,           \* initialize_ray() invocations after the load
    results               \* how each initialize_ray() invocation ended

vars == <<execution_engine, loader, environ, system_memory, sys_path,
          worker_sys_path, dask_client, dask_ncores, ray_initialized, pc, ir,
          num_cpus, DEFAULT_NPARTITIONS, error, backend_log, memory_reads,
          post_calls, results>>

inputs == <<execution_engine, loader, environ, system_memory, dask_ncores>>

NoError == [type |-> "none", message |-> <<>>]

Init ==
    /\ execution_engine \in Engines
    /\ loader \in Threads
    /\ IF execution_engine = "Ray"
       THEN /\ \E c \in ClusterValues, r \in RedisValues,
                  m \in MemoryValues, o \in OutOfCoreValues :
                   environ = [DefaultEnviron EXCEPT !.MODIN_RAY_CLUSTER = c,
                                                    !.MODIN_REDIS_ADDRESS = r,
                                                    !.MODIN_MEMORY = m,
                                                    !.MODIN_OUT_OF_CORE = o]
            /\ system_memory \in SystemMemories
            /\ sys_path \in SysPaths
            /\ ray_initialized \in BOOLEAN
            /\ dask_client = FALSE
            /\ dask_ncores = 1
       ELSE /\ environ = DefaultEnviron
            /\ system_memory = 2000
            /\ sys_path = <<<<>>, StdLib, StdLib \o <<"/">> \o SitePackages>>
            /\ ray_initialized = FALSE
            /\ dask_client \in BOOLEAN
            /\ dask_ncores \in DaskCores
    /\ worker_sys_path = sys_path
    /\ pc = "dispatch"
    /\ ir = "idle"
    /\ num_cpus = 10
    /\ DEFAULT_NPARTITIONS = None
    /\ error = NoError
    /\ backend_log = <<>>
    /\ memory_reads = 0
    /\ post_calls = 0
    /\ results = <<>>

(* ------------------------------ bookkeeping ---------------------------- *)
Call(op, args, result) == [op |-> op, args |-> args, result |-> result]
NoArgs == [plasma_directory |-> None, object_store_memory |-> None,
           redis_address |-> None]

\* an initialize_ray() invocation of thread t returns
Returns(t, initialized) ==
    /\ results' = Append(results, [thread |-> t, outcome |-> "returned",
                                   initialized |-> initialized])
    /\ pc' = IF pc = "initialize_ray" THEN "cluster_resources" ELSE pc
    /\ UNCHANGED error

\* the MainThread invocation of initialize_ray() raises: the exception ends
\* the module body when the call is the one of line 212
Raises(type, initialized) ==
    /\ ir' = "idle"
    /\ results' = Append(results, [thread |-> MainThread, outcome |-> "raised",
                                   initialized |-> initialized])
    /\ IF pc = "initialize_ray"
       THEN pc' = "failed" /\ error' = [type |-> type, message |-> <<>>]
       ELSE UNCHANGED <<pc, error>>

(* ------------------------ module body, lines 209-231 ------------------- *)
\* line 209-212: the engine is "Ray", the module calls initialize_ray()
LoadRay ==
    /\ pc = "dispatch"
    /\ Dispatch(execution_engine) = "Ray"
    /\ pc' = "initialize_ray"
    /\ ir' = IF loader = MainThread THEN "init" ELSE ir
    /\ UNCHANGED <<inputs, sys_path, worker_sys_path, dask_client,
                   ray_initialized, num_cpus, DEFAULT_NPARTITIONS, error,
                   backend_log, memory_reads, post_calls, results>>

\* lines 214-227: the engine is "Dask"
LoadDask ==
    /\ pc = "dispatch"
    /\ Dispatch(execution_engine) = "Dask"
    /\ IF loader = MainThread
       THEN /\ dask_client' = TRUE
            /\ backend_log' = backend_log
                   \o <<Call("_get_global_client", NoArgs, None)>>
                   \o (IF dask_client THEN <<>> ELSE <<Call("Client", NoArgs, None)>>)
                   \o <<Call("ncores", NoArgs, Some(10 * dask_ncores))>>
            /\ num_cpus' = 10 * dask_ncores
       ELSE UNCHANGED <<dask_client, backend_log, num_cpus>>
    /\ pc' = "publish"
    /\ UNCHANGED <<inputs, sys_path, worker_sys_path, ray_initialized, ir,
                   DEFAULT_NPARTITIONS, error, memory_reads, post_calls,
                   results>>

\* the engine is "Python": no branch of the chain is taken
LoadPython ==
    /\ pc = "dispatch"
    /\ Dispatch(execution_engine) = "Python"
    /\ pc' = "publish"
    /\ UNCHANGED <<inputs, sys_path, worker_sys_path, dask_client,
                   ray_initialized, ir, num_cpus, DEFAULT_NPARTITIONS, error,
                   backend_log, memory_reads, post_calls, results>>

\* lines 228-229: any other engine raises ImportError
LoadUnrecognized ==
    /\ pc = "dispatch"
    /\ Dispatch(execution_engine) = "raise"
    /\ pc' = "failed"
    /\ error' = [type |-> "ImportError",
                 message |-> UnrecognizedMessage(execution_engine)]
    /\ UNCHANGED <<inputs, sys_path, worker_sys_path, dask_client,
                   ray_initialized, ir, num_cpus, DEFAULT_NPARTITIONS,
                   backend_log, memory_reads, post_calls, results>>


(* --------------------- initialize_ray, lines 127-206 ------------------- *)
\* which ray.init call the if / elif of lines 135 and 143 selects
InitBranch(env) ==
    IF env.MODIN_RAY_CLUSTER = Some("True") /\ env.MODIN_REDIS_ADDRESS # None
    THEN "cluster"
    ELSE IF env.MODIN_RAY_CLUSTER = None THEN "local"
    ELSE "none"

InitArgs(env, mem) ==
    IF InitBranch(env) = "cluster" THEN ClusterInitArgs(env)
    ELSE LocalInitArgs(env, mem)

\* lines 131-174 reach a ray.init call
ReachesInit == /\ ir = "init"
               /\ InitBranch(environ) # "none"
               /\ InitBranch(environ) = "local" =>
                      ~MemoryRaises(environ, system_memory)

ReadsMemory == memory_reads + (IF InitBranch(environ) = "local"
                               THEN MemoryReads(environ) ELSE 0)

\* line 131 in a thread that is not MainThread: the call of line 212 does
\* nothing and returns
InitializeRayOffMain ==
    /\ pc = "initialize_ray"
    /\ loader # MainThread
    /\ Returns(loader, ray_initialized)
    /\ UNCHANGED <<inputs, sys_path, worker_sys_path, dask_client,
                   ray_initialized, ir, num_cpus, DEFAULT_NPARTITIONS,
                   backend_log, memory_reads, post_calls>>

\* lines 137-142 or 167-174: ray.init(ignore_reinit_error=True, ...) returns
RayInit ==
    /\ ReachesInit
    /\ backend_log' = Append(backend_log,
           Call("init", InitArgs(environ, system_memory), None))
    /\ memory_reads' = ReadsMemory
    /\ ray_initialized' = TRUE
    /\ ir' = "register"
    /\ UNCHANGED <<inputs, sys_path, worker_sys_path, dask_client, pc,
                   num_cpus, DEFAULT_NPARTITIONS, error, post_calls, results>>

\* ray.init raises: the coordinator at redis_address does not accept the
\* connection (there is none to make once this process is initialized)
RayInitFails ==
    /\ ReachesInit
    /\ environ.MODIN_REDIS_ADDRESS # None
    /\ ~ray_initialized
    /\ backend_log' = Append(backend_log,
           Call("init", InitArgs(environ, system_memory), None))
    /\ memory_reads' = ReadsMemory
    /\ Raises("ConnectionError", ray_initialized)
    /\ UNCHANGED <<inputs, sys_path, worker_sys_path, dask_client,
                   ray_initialized, num_cpus, DEFAULT_NPARTITIONS, post_calls>>

\* line 166: int(object_store_memory) raises ValueError
MemoryValueError ==
    /\ ir = "init"
    /\ InitBranch(environ) = "local"
    /\ MemoryRaises(environ, system_memory)
    /\ Raises("ValueError", ray_initialized)
    /\ UNCHANGED <<inputs, sys_path, worker_sys_path, dask_client,
                   ray_initialized, num_cpus, DEFAULT_NPARTITIONS, backend_log,
                   memory_reads, post_calls>>

\* neither line 135 nor line 143 holds: no ray.init call is made
RayInitSkipped ==
    /\ ir = "init"
    /\ InitBranch(environ) = "none"
    /\ ir' = "register"
    /\ UNCHANGED <<inputs, sys_path, worker_sys_path, dask_client,
                   ray_initialized, pc, num_cpus, DEFAULT_NPARTITIONS, error,
                   backend_log, memory_reads, post_calls, results>>

\* line 177: ray.register_custom_serializer(types.MethodType, use_pickle=True)
RegisterSerializer ==
    /\ ir = "register"
    /\ backend_log' = Append(backend_log,
           Call("register_custom_serializer", NoArgs, None))
    /\ ir' = "normalize"
    /\ UNCHANGED <<inputs, sys_path, worker_sys_path, dask_client,
                   ray_initialized, pc, num_cpus, DEFAULT_NPARTITIONS, error,
                   memory_reads, post_calls, results>>

\* the same call on a backend that was never initialized may raise
RegisterSerializerFails ==
    /\ ir = "register"
    /\ ~ray_initialized
    /\ backend_log' = Append(backend_log,
           Call("register_custom_serializer", NoArgs, None))
    /\ Raises("RayError", ray_initialized)
    /\ UNCHANGED <<inputs, sys_path, worker_sys_path, dask_client,
                   ray_initialized, num_cpus, DEFAULT_NPARTITIONS,
                   memory_reads, post_calls>>

\* line 203: move_stdlib_ahead_of_site_packages()
NormalizeLocal ==
    /\ ir = "normalize"
    /\ sys_path' = move_stdlib_ahead_of_site_packages(sys_path, ExecPrefix)
    /\ ir' = "propagate"
    /\ UNCHANGED <<inputs, worker_sys_path, dask_client, ray_initialized, pc,
                   num_cpus, DEFAULT_NPARTITIONS, error, backend_log,
                   memory_reads, post_calls, results>>

\* lines 204-206: run_function_on_all_workers runs the function "on
\* all_workers including the driver", then initialize_ray returns
RunOnAllWorkers ==
    /\ ir = "propagate"
    /\ backend_log' = Append(backend_log,
           Call("run_function_on_all_workers", NoArgs, None))
    /\ sys_path' = move_stdlib_ahead_of_site_packages(sys_path, ExecPrefix)
    /\ worker_sys_path' =
           move_stdlib_ahead_of_site_packages(worker_sys_path, ExecPrefix)
    /\ ir' = "idle"
    /\ Returns(MainThread, ray_initialized)
    /\ UNCHANGED <<inputs, dask_client, ray_initialized, num_cpus,
                   DEFAULT_NPARTITIONS, memory_reads, post_calls>>

\* the same call on a backend that was never initialized may raise
RunOnAllWorkersFails ==
    /\ ir = "propagate"
    /\ ~ray_initialized
    /\ backend_log' = Append(backend_log,
           Call("run_function_on_all_workers", NoArgs, None))
    /\ Raises("RayError", ray_initialized)
    /\ UNCHANGED <<inputs, sys_path, worker_sys_path, dask_client,
                   ray_initialized, num_cpus, DEFAULT_NPARTITIONS,
                   memory_reads, post_calls>>

(* ---------------------- module body, lines 213 and 231 ----------------- *)
\* line 213: num_cpus = ray.cluster_resources()["CPU"]
ClusterResources ==
    /\ pc = "cluster_resources"
    /\ \E cpu \in CpuCapacities :
           /\ backend_log' = Append(backend_log,
                  Call("cluster_resources", NoArgs, Some(cpu)))
           /\ num_cpus' = cpu
    /\ pc' = "publish"
    /\ UNCHANGED <<inputs, sys_path, worker_sys_path, dask_client,
                   ray_initialized, ir, DEFAULT_NPARTITIONS, error,
                   memory_reads, post_calls, results>>

\* the same call on a backend that was never initialized may raise
ClusterResourcesFails ==
    /\ pc = "cluster_resources"
    /\ ~ray_initialized
    /\ backend_log' = Append(backend_log,
           Call("cluster_resources", NoArgs, None))
    /\ pc' = "failed"
    /\ error' = [type |-> "RayError", message |-> <<>>]
    /\ UNCHANGED <<inputs, sys_path, worker_sys_path, dask_client,
                   ray_initialized, ir, num_cpus, DEFAULT_NPARTITIONS,
                   memory_reads, post_calls, results>>

\* line 231: DEFAULT_NPARTITIONS = max(4, int(num_cpus))
Publish ==
    /\ pc = "publish"
    /\ DEFAULT_NPARTITIONS' = Some(DefaultNPartitions(num_cpus))
    /\ pc' = "loaded"
    /\ UNCHANGED <<inputs, sys_path, worker_sys_path, dask_client,
                   ray_initialized, ir, num_cpus, error, backend_log,
                   memory_reads, post_calls, results>>

(* ---------------- initialize_ray() called again after the load --------- *)
\* MainThread enters initialize_ray: line 131 holds
CallInitializeRay ==
    /\ pc = "loaded"
    /\ post_calls < MaxCalls
    /\ ir = "idle"
    /\ post_calls' = post_calls + 1
    /\ ir' = "init"
    /\ UNCHANGED <<inputs, sys_path, worker_sys_path, dask_client,
                   ray_initialized, pc, num_cpus, DEFAULT_NPARTITIONS, error,
                   backend_log, memory_reads, results>>

\* another thread calls initialize_ray: line 131 fails and the call returns
CallInitializeRayOffMain ==
    /\ pc = "loaded"
    /\ post_calls < MaxCalls
    /\ post_calls' = post_calls + 1
    /\ \E t \in Threads \ {MainThread} : Returns(t, ray_initialized)
    /\ UNCHANGED <<inputs, sys_path, worker_sys_path, dask_client,
                   ray_initialized, ir, num_cpus, DEFAULT_NPARTITIONS,
                   backend_log, memory_reads>>

Next ==
    \/ LoadRay
    \/ LoadDask
    \/ LoadPython
    \/ LoadUnrecognized
    \/ InitializeRayOffMain
    \/ RayInit
    \/ RayInitFails
    \/ MemoryValueError
    \/ RayInitSkipped
    \/ RegisterSerializer
    \/ RegisterSerializerFails
    \/ NormalizeLocal
    \/ RunOnAllWorkers
    \/ RunOnAllWorkersFails
    \/ ClusterResources
    \/ ClusterResourcesFails
    \/ Publish
    \/ CallInitializeRay
    \/ CallInitializeRayOffMain

Spec == Init /\ [][Next]_vars


(* ============================== properties ============================= *)
InitCalls == {i \in DOMAIN backend_log : backend_log[i].op = "init"}
CallsOf(ops) == {i \in DOMAIN backend_log : backend_log[i].op \in ops}
\* CPU capacities read back from the backend by the module body
ReadBacks == {i \in CallsOf({"cluster_resources", "ncores"}) :
                  backend_log[i].result # None}
\* floor(num / (den * 10 ** 9)), as the whole number g of gigabytes with
\* g <= num / (den * 10 ** 9) < g + 1
WholeGB(num, den) ==
    CHOOSE g \in 0..200 : g * den * GB <= num /\ num < (g + 1) * den * GB
\* floor of a capacity given in tenths
Floor(tenths) == CHOOSE n \in 0..200 : 10 * n <= tenths /\ tenths < 10 * (n + 1)
LocalMode == environ.MODIN_RAY_CLUSTER = None
OutOfCoreFlagSet == environ.MODIN_OUT_OF_CORE = Some(<<"t", "r", "u", "e">>)
OutOfCoreFlagUnset == environ.MODIN_OUT_OF_CORE \in {None, Some(False)}

\* C1: with the engine "Ray", a valid local configuration and the module
\* loaded from MainThread, however many times initialize_ray has been invoked
\* ray.init has been called exactly once in total, and every invocation
\* returned (none raised) observing an initialized cluster.
C1_ExactlyOneInit ==
    ( /\ execution_engine = "Ray"
      /\ loader = MainThread
      /\ LocalMode
      /\ environ.MODIN_REDIS_ADDRESS = None
      /\ environ.MODIN_MEMORY = None
      /\ results # <<>> )
    => /\ Cardinality(InitCalls) = 1
       /\ \A i \in DOMAIN results :
              results[i].outcome = "returned" /\ results[i].initialized

\* C2: the object_store_memory forwarded to ray.init is never 0: it is None
\* or a strictly positive integer, whatever the override, the out-of-core
\* flag and the system memory.
C2_BudgetNeverZero ==
    \A i \in InitCalls :
        backend_log[i].args.object_store_memory # Some(0)

\* C3: move_stdlib_ahead_of_site_packages is idempotent: once it has been
\* applied to sys.path (MainThread stands before run_function_on_all_workers,
\* which applies it again), applying it again leaves sys.path unchanged.
C3_Idempotent ==
    ir = "propagate" =>
        move_stdlib_ahead_of_site_packages(sys_path, ExecPrefix) = sys_path

\* C4: an engine other than exactly "Python", "Ray" or "Dask" makes the module
\* body fail with an error whose message names the engine, before any
\* bootstrap work: no backend call, no initialize_ray invocation, and
\* DEFAULT_NPARTITIONS is never published.
C4_UnrecognizedEngineFails ==
    execution_engine \notin {"Python", "Ray", "Dask"} =>
        /\ pc \in {"dispatch", "failed"}
        /\ pc = "failed" =>
               /\ error.type = "ImportError"
               /\ \E k \in DOMAIN error.message :
                      error.message[k] = execution_engine
        /\ backend_log = <<>>
        /\ results = <<>>
        /\ ir = "idle"
        /\ DEFAULT_NPARTITIONS = None
        /\ post_calls = 0

C4_Witness ==
    /\ execution_engine = "ray"
    /\ pc = "failed"
    /\ error.type = "ImportError"
    /\ backend_log = <<>>

C6_MissingAddressFails ==
    ( /\ execution_engine = "Ray"
      /\ loader = MainThread
      /\ environ.MODIN_RAY_CLUSTER = Some("True")
      /\ environ.MODIN_REDIS_ADDRESS = None )
    => /\ CallsOf({"register_custom_serializer",
                   "run_function_on_all_workers", "cluster_resources"}) = {}
       /\ pc \in {"dispatch", "initialize_ray", "failed"}

\* C7: a negative MODIN_MEMORY is rejected: ray.init is never called with a
\* negative object_store_memory, and with the override "-1000" it is not
\* called at all in local mode.
C7_NegativeMemoryRejected ==
    /\ \A i \in InitCalls :
           \A m \in backend_log[i].args.object_store_memory : m >= 0
    /\ (environ.MODIN_MEMORY = Some(<<"-", "1", "0", "0", "0">>) /\ LocalMode)
           => InitCalls = {}

OverrideValue(text) ==
    CASE text = <<"0">> -> 0
      [] text = <<"-", "1", "0", "0", "0">> -> 0 - 1000
      [] text = <<"2", "0", "0", "0">> -> 2000

\* C9: in local mode with the out-of-core flag set, every ray.init call
\* carries the temporary directory as plasma_directory, and as budget the
\* MODIN_MEMORY override unchanged when there is one (the system memory is
\* then never read), else 8 * floor(system_memory / 1e9) * 1e9, which is
\* 16_000_000_000 for a system memory of 2_000_000_000 bytes.
C9_OutOfCoreBudget ==
    \A i \in InitCalls :
        (LocalMode /\ OutOfCoreFlagSet) =>
            /\ backend_log[i].args.plasma_directory = Some(TempDir)
            /\ IF environ.MODIN_MEMORY # None
               THEN /\ backend_log[i].args.object_store_memory =
                           Some(OverrideValue(Get(environ.MODIN_MEMORY)))
                    /\ memory_reads = 0
               ELSE /\ backend_log[i].args.object_store_memory =
                           Some(8 * WholeGB(system_memory, 1) * GB)
                    /\ system_memory = 2000 =>
                           backend_log[i].args.object_store_memory = Some(16000)

C9_Witness ==
    /\ LocalMode /\ OutOfCoreFlagSet
    /\ environ.MODIN_MEMORY = None
    /\ system_memory = 2000
    /\ \E i \in InitCalls :
           /\ backend_log[i].args.object_store_memory = Some(16000)
           /\ backend_log[i].args.plasma_directory = Some(TempDir)

\* C10: with the engine "Ray", every query of the cluster's CPU capacity is
\* preceded, in this order, by ray.init, the registration of the serializer
\* and the propagation of the path normalization to all workers, whatever
\* the loading thread, MODIN_RAY_CLUSTER and MODIN_REDIS_ADDRESS.
C10_QueryAfterBootstrap ==
    \A q \in CallsOf({"cluster_resources"}) :
        \E a, b, c \in 1..(q - 1) :
            /\ a < b /\ b < c
            /\ backend_log[a].op = "init"
            /\ backend_log[b].op = "register_custom_serializer"
            /\ backend_log[c].op = "run_function_on_all_workers"

====
